---- MODULE Spec2Model ----
(***************************************************************************)
(* Model of tools/update-kb.py: the Artifact Knowledge Base updater.       *)
(*                                                                         *)
(* Text is modelled as sequences of one-character strings, so that         *)
(* startswith, slicing, replace, join and str.format are computed as the   *)
(* Python code computes them.  None and the empty string are both the      *)
(* empty sequence: the code only ever tests them for truthiness.           *)
(* The knowledge base directory (and its windows subdirectory) is taken    *)
(* to exist and to be writable, so io.open(..., 'w') succeeds.             *)
(***************************************************************************)
EXTENDS Integers, Sequences, FiniteSets, TLC

(***************************************************************************)
(* String constants of the source.                                         *)
(***************************************************************************)
ARTIFACTS_KB_URL_PREFIX ==
    <<"h", "t", "t", "p", "s", ":", "/", "/", "g", "i", "t", "h", "u", "b",
      ".", "c", "o", "m", "/", "F", "o", "r", "e", "n", "s", "i", "c", "A",
      "r", "t", "i", "f", "a", "c", "t", "s", "/", "a", "r", "t", "i", "f",
      "a", "c", "t", "s", "-", "k", "b", "/">>

WindowsPrefix ==
    <<"W", "i", "n", "d", "o", "w", "s">>

WindowsDirectory ==
    <<"w", "i", "n", "d", "o", "w", "s">>

PathTemplate ==
    <<"{", "0", ":", "s", "}", ".", "m", "d">>

HeadingTemplate ==
    <<"#", "#", " ", "{", "t", "i", "t", "l", "e", ":", "s", "}">>

TodoSummary ==
    <<"T", "O", "D", "O", ":", " ", "a", "d", "d", " ", "s", "h", "o", "r",
      "t", " ", "s", "u", "m", "m", "a", "r", "y">>

ReferencesHeading ==
    <<"#", "#", "#", " ", "R", "e", "f", "e", "r", "e", "n", "c", "e", "s">>

ReferenceTemplate ==
    <<"*", " ", "[", "T", "O", "D", "O", ":", " ", "a", "d", "d", " ", "d",
      "e", "s", "c", "r", "i", "p", "t", "i", "o", "n", "]", "(", "{", "0",
      ":", "s", "}", ")">>

TitleField ==
    <<"t", "i", "t", "l", "e">>

PositionalField ==
    <<"0">>

(***************************************************************************)
(* Python string primitives.                                               *)
(***************************************************************************)

\* str.startswith(prefix)
StartsWith(s, prefix) ==
    /\ Len(s) >= Len(prefix)
    /\ SubSeq(s, 1, Len(prefix)) = prefix

\* s[n:]
SliceFrom(s, n) ==
    SubSeq(s, n + 1, Len(s))

\* Index of the first occurrence of a character of cs in s at or after i,
\* 0 when there is none.
IndexFrom(s, cs, i) ==
    LET hits == {j \in i..Len(s) : s[j] \in cs}
    IN  IF hits = {} THEN 0
        ELSE CHOOSE j \in hits : \A k \in hits : j <= k

\* str.replace(old, new) for a one-character old
RECURSIVE Replace(_, _, _)
Replace(s, old, new) ==
    LET i == IndexFrom(s, {old}, 1)
    IN  IF i = 0 THEN s
        ELSE SubSeq(s, 1, i - 1) \o new
             \o Replace(SubSeq(s, i + 1, Len(s)), old, new)

\* '\n'.join(lines)
RECURSIVE Join(_)
Join(lines) ==
    IF lines = <<>> THEN <<>>
    ELSE IF Len(lines) = 1 THEN lines[1]
    ELSE lines[1] \o <<"\n">> \o Join(Tail(lines))

\* posixpath.join(a, b)
PathJoin(a, b) ==
    IF StartsWith(b, <<"/">>) THEN b
    ELSE IF a = <<>> \/ a[Len(a)] = "/" THEN a \o b
    ELSE a \o <<"/">> \o b

\* The outcome of a str.format call: the text, or an exception
\* (ValueError for a single brace, KeyError / IndexError for an unknown field).
Formatted(text) == [raised |-> FALSE, text |-> text]

FormatRaised == [raised |-> TRUE, text |-> <<>>]

\* The value of one replacement field "name" or "name:spec".  Only the empty
\* format spec and 's' leave a string unchanged; they are the only ones the
\* templates of the source use.
FieldValue(field, mapping) ==
    LET colon == IndexFrom(field, {":"}, 1)
        name  == IF colon = 0 THEN field ELSE SubSeq(field, 1, colon - 1)
        spec  == IF colon = 0 THEN <<>> ELSE SliceFrom(field, colon)
    IN  IF name \in DOMAIN mapping /\ spec \in {<<>>, <<"s">>}
        THEN Formatted(mapping[name])
        ELSE FormatRaised

\* str.format: text outside braces is copied, '{{' and '}}' collapse to one
\* brace, '{field}' is replaced by the value of the field (which is not parsed
\* again), a single '}' or an unclosed '{' raises.
RECURSIVE FormatFrom(_, _, _)
FormatFrom(t, i, mapping) ==
    LET brace == IndexFrom(t, {"{", "}"}, i)
    IN  IF brace = 0 THEN Formatted(SubSeq(t, i, Len(t)))
        ELSE
          LET literal == SubSeq(t, i, brace - 1)
              doubled == brace < Len(t) /\ t[brace + 1] = t[brace]
              close   == IndexFrom(t, {"}"}, brace + 1)
          IN  IF doubled THEN
                  LET rest == FormatFrom(t, brace + 2, mapping)
                  IN  IF rest.raised THEN FormatRaised
                      ELSE Formatted(literal \o <<t[brace]>> \o rest.text)
              ELSE IF t[brace] = "}" \/ close = 0 THEN FormatRaised
              ELSE
                  LET value == FieldValue(SubSeq(t, brace + 1, close - 1), mapping)
                      rest  == FormatFrom(t, close + 1, mapping)
                  IN  IF value.raised \/ rest.raised THEN FormatRaised
                      ELSE Formatted(literal \o value.text \o rest.text)

StrFormat(template, mapping) ==
    FormatFrom(template, 1, mapping)

(***************************************************************************)
(* ArtifactKnowledgeBaseUpdater._CreateKBArticle                           *)
(***************************************************************************)

\* Variant: only the opening brace is doubled.
EscapeOpenBraces(s) ==
    Replace(s, "{", <<"{", "{">>)

\* description.replace('{', '{{').replace('}', '}}'), the same for each url
EscapeBraces(s) ==
    Replace(Replace(s, "{", <<"{", "{">>), "}", <<"}", "}">>)

\* '* [TODO: add description]({0:s})'.format(url), url escaped first
ReferenceLine(url) ==
    StrFormat(ReferenceTemplate, PositionalField :> EscapeBraces(url)).text

\* The lines of article_template before they are joined.
ArticleTemplate(artifact_definition) ==
    <<HeadingTemplate, <<>>,
      IF artifact_definition.description # <<>>
      THEN EscapeBraces(artifact_definition.description)
      ELSE TodoSummary,
      <<>>, ReferencesHeading, <<>>>>
    \o [i \in 1..Len(artifact_definition.urls) |->
          ReferenceLine(artifact_definition.urls[i])]
    \o << <<>> >>

\* template_mappings
TemplateMappings(artifact_definition) ==
    TitleField :> SliceFrom(artifact_definition.name, 7)

\* article_content: the joined template after the second substitution pass.
ArticleContent(artifact_definition) ==
    StrFormat(Join(ArticleTemplate(artifact_definition)),
              TemplateMappings(artifact_definition))

\* Variant: the prefix is not stripped from the name.
KBArticlePathWholeName(kb_path, name) ==
    PathJoin(kb_path,
             PathJoin(WindowsDirectory,
                      StrFormat(PathTemplate, PositionalField :> name).text))

\* kb_article_path for a name that starts with 'Windows'
KBArticlePath(kb_path, name) ==
    PathJoin(kb_path,
             PathJoin(WindowsDirectory,
                      StrFormat(PathTemplate,
                                PositionalField :> SliceFrom(name, 7)).text))

\* Variant: the existence check never finds the file.
PathExistsNever(files, path) ==
    FALSE

\* os.path.exists(kb_article_path) over the files of the knowledge base
PathExists(files, path) ==
    path \in DOMAIN files

\* io.open(path, 'w').write(content)
WriteFile(files, path, content) ==
    [p \in DOMAIN files \cup {path} |-> IF p = path THEN content ELSE files[p]]

\* Variant: no check that a knowledge base path is configured.
CreateKBArticleNoPathCheck(kb_path, files, artifact_definition) ==
    LET path    == KBArticlePath(kb_path, artifact_definition.name)
        content == ArticleContent(artifact_definition)
    IN  IF ~StartsWith(artifact_definition.name, WindowsPrefix) THEN
            [ret |-> FALSE, log |-> "Unable to create knowledge base article",
             files |-> files, raised |-> FALSE]
        ELSE IF PathExists(files, path) THEN
            [ret |-> FALSE, log |-> "has knowledge base article but is not specified as URL",
             files |-> files, raised |-> FALSE]
        ELSE IF content.raised THEN
            [ret |-> FALSE, log |-> "exception",
             files |-> files, raised |-> TRUE]
        ELSE
            [ret |-> TRUE, log |-> "created",
             files |-> WriteFile(files, path, content.text), raised |-> FALSE]

\* Variant: an existing article counts as success.
CreateKBArticleCollisionOk(kb_path, files, artifact_definition) ==
    LET path    == KBArticlePath(kb_path, artifact_definition.name)
        content == ArticleContent(artifact_definition)
    IN  IF kb_path = <<>> THEN
            [ret |-> FALSE, log |-> "Missing knowledge base article",
             files |-> files, raised |-> FALSE]
        ELSE IF ~StartsWith(artifact_definition.name, WindowsPrefix) THEN
            [ret |-> FALSE, log |-> "Unable to create knowledge base article",
             files |-> files, raised |-> FALSE]
        ELSE IF PathExists(files, path) THEN
            [ret |-> TRUE, log |-> "has knowledge base article but is not specified as URL",
             files |-> files, raised |-> FALSE]
        ELSE IF content.raised THEN
            [ret |-> FALSE, log |-> "exception",
             files |-> files, raised |-> TRUE]
        ELSE
            [ret |-> TRUE, log |-> "created",
             files |-> WriteFile(files, path, content.text), raised |-> FALSE]

\* The outcome of one call: the returned bool, the message logged, the files
\* of the knowledge base afterwards, and whether an exception left the call.
CreateKBArticle(kb_path, files, artifact_definition) ==
    LET path    == KBArticlePath(kb_path, artifact_definition.name)
        content == ArticleContent(artifact_definition)
    IN  IF kb_path = <<>> THEN
            [ret |-> FALSE, log |-> "Missing knowledge base article",
             files |-> files, raised |-> FALSE]
        ELSE IF ~StartsWith(artifact_definition.name, WindowsPrefix) THEN
            [ret |-> FALSE, log |-> "Unable to create knowledge base article",
             files |-> files, raised |-> FALSE]
        ELSE IF PathExists(files, path) THEN
            [ret |-> FALSE, log |-> "has knowledge base article but is not specified as URL",
             files |-> files, raised |-> FALSE]
        ELSE IF content.raised THEN
            [ret |-> FALSE, log |-> "exception",
             files |-> files, raised |-> TRUE]
        ELSE
            [ret |-> TRUE, log |-> "created",
             files |-> WriteFile(files, path, content.text), raised |-> FALSE]

\* Variant: only the first url is looked at.
HasKBPageFirstUrl(artifact_definition) ==
    /\ artifact_definition.urls # <<>>
    /\ StartsWith(artifact_definition.urls[1], ARTIFACTS_KB_URL_PREFIX)

\* has_kb_page after the loop over the urls
HasKBPage(artifact_definition) ==
    \E i \in 1..Len(artifact_definition.urls) :
        StartsWith(artifact_definition.urls[i], ARTIFACTS_KB_URL_PREFIX)

(***************************************************************************)
(* Inputs: artifact definitions, the definitions path, the arguments.      *)
(***************************************************************************)

\* Bounds of the model.
MaxEvents == 3

MaxLen == 2

MaxUrls == 2

ArtifactDefinition(name, description, urls) ==
    [name |-> name, description |-> description, urls |-> urls]

NoDefinition == ArtifactDefinition(<<>>, <<>>, <<>>)

RegistryKeyName ==
    <<"W", "i", "n", "d", "o", "w", "s", "R", "e", "g", "i", "s", "t", "r",
      "y", "K", "e", "y">>

EventLogName ==
    <<"W", "i", "n", "d", "o", "w", "s", "E", "v", "e", "n", "t", "L", "o",
      "g">>

ProcfsName ==
    <<"L", "i", "n", "u", "x", "P", "r", "o", "c", "f", "s">>

WindowName ==
    <<"W", "i", "n", "d", "o", "w">>

KeyDescription ==
    <<"A", " ", "k", "e", "y", ".">>

TitleBraces ==
    <<"{", "t", "i", "t", "l", "e", "}">>

TitleSpecBraces ==
    <<"{", "t", "i", "t", "l", "e", ":", "s", "}">>

OtherUrl ==
    <<"h", "t", "t", "p", ":", "/", "/", "x", "/", "{", "0", "}">>

KBUrl == ARTIFACTS_KB_URL_PREFIX \o <<"e">>

KBPath == <<"k", "b">>

DefinitionsPath == <<"d", "a", "t", "a">>

MissingPath == <<"n", "o", "d", "i", "r">>

\* The definitions the files of the definitions path are made of.
RegistryKey == ArtifactDefinition(RegistryKeyName, KeyDescription, <<>>)

RegistryKeyOther == ArtifactDefinition(RegistryKeyName, <<>>, <<OtherUrl>>)

EventLog == ArtifactDefinition(EventLogName, TitleBraces, <<OtherUrl, KBUrl>>)

Procfs == ArtifactDefinition(ProcfsName, KeyDescription, <<OtherUrl>>)

WindowsBare == ArtifactDefinition(WindowsPrefix, TitleBraces, <<OtherUrl>>)

FileDefinitions == {RegistryKey, RegistryKeyOther, EventLog, Procfs, WindowsBare}

\* All sequences over S of length at most n.
RECURSIVE SeqsUpTo(_, _)
SeqsUpTo(S, n) ==
    IF n <= 0 THEN {<<>>}
    ELSE LET shorter == SeqsUpTo(S, n - 1)
         IN  shorter \cup {Append(q, x) : q \in shorter, x \in S}

\* A definitions file as the reader yields it: the definitions in order, then
\* either the end of the file or a FormatError.
DefinitionsFile(defs, err) == [defs |-> defs, err |-> err]

\* Reader events of a file: one per definition, one for its end.
Events(file) == Len(file.defs) + 1

FilesWithin(D, n) ==
    {DefinitionsFile(defs, err) : defs \in SeqsUpTo(D, n - 1), err \in BOOLEAN}

\* An entry of the definitions directory: its name and what the reader
\* yields for it.
DirectoryEntry(name, file) == [name |-> name, file |-> file]

YamlExtension == <<".", "y", "a", "m", "l">>

TextExtension == <<".", "t", "x", "t">>

\* A name for the k-th entry of a listing: "f.yaml", "ff.yaml", ...
Stem(k) == [i \in 1..k |-> "f"]

\* The listings of a directory holding at most n events, entries numbered
\* from k.  An entry that is not a '*.yaml' file counts as one event.
RECURSIVE Listings(_, _, _)
Listings(D, n, k) ==
    IF n <= 0 THEN {<<>>}
    ELSE {<<>>}
         \cup UNION {{<<DirectoryEntry(Stem(k) \o YamlExtension, f)>> \o rest :
                        rest \in Listings(D, n - Events(f), k + 1)} :
                     f \in FilesWithin(D, n)}
         \cup {<<DirectoryEntry(Stem(k) \o TextExtension,
                                DefinitionsFile(<<>>, FALSE))>> \o rest :
                 rest \in Listings(D, n - 1, k + 1)}

\* The definitions path: a directory or one file.
FileSystems ==
    {[isdir |-> TRUE, entries |-> l] :
        l \in Listings(FileDefinitions, MaxEvents, 1)}
    \cup {[isdir |-> FALSE, entries |-> <<DirectoryEntry(DefinitionsPath, f)>>] :
            f \in FilesWithin(FileDefinitions, MaxEvents)}

\* Definitions with every short description and url text over braces.
Alphabet == {"{", "}", "a"}

Names == {WindowsPrefix, RegistryKeyName, ProcfsName, WindowName}

Descriptions == SeqsUpTo(Alphabet, MaxLen) \cup {TitleBraces, TitleSpecBraces}

Urls == {<<"{">>, <<"}", "}">>, OtherUrl}

RenderDefinitions ==
    {ArtifactDefinition(n, d, <<>>) : n \in Names, d \in Descriptions}
    \cup {ArtifactDefinition(n, TitleBraces, u) :
            n \in Names, u \in SeqsUpTo(Urls, MaxUrls)}

\* One file holding one definition.
ArticleFileSystems ==
    {[isdir |-> FALSE,
      entries |-> <<DirectoryEntry(DefinitionsPath, DefinitionsFile(<<d>>, err))>>] :
        d \in RenderDefinitions, err \in BOOLEAN}

KBPaths == {<<>>, KBPath}

DefinitionsArguments == {<<>>, MissingPath, DefinitionsPath}

(***************************************************************************)
(* State.                                                                  *)
(***************************************************************************)
VARIABLES
    fs,           \* the definitions path: a directory listing or one file
    kb,           \* files of the knowledge base directory: path -> content
    options,      \* parsed arguments of the current run of Main
    pc,           \* "start", "glob" (in Main), "reading" (in ProcessFile), "exit"
    fileIdx,      \* number of files Main has passed to ProcessFile
    defIdx,       \* number of definitions the reader has yielded for the file
    main_result,  \* result of Main
    result,       \* result of ProcessFile
    trace,        \* iterations of the loop of the current ProcessFile call
    processed,    \* ProcessFile calls of the current run, with what they returned
    prev,         \* arguments and ProcessFile calls of the previous completed run
    output,       \* last line Main printed
    exitCode      \* exit code of the process, once pc = "exit"

vars == <<fs, kb, options, pc, fileIdx, defIdx, main_result, result, trace,
          processed, prev, output, exitCode>>

NoFiles == [p \in {} |-> <<>>]

NoRun == [valid |-> FALSE, kb_path |-> <<>>, processed |-> <<>>]

Start(systems) ==
    /\ fs \in systems
    /\ kb = NoFiles
    /\ options = [kb_path |-> <<>>, definitions |-> <<>>]
    /\ pc = "start"
    /\ fileIdx = 0
    /\ defIdx = 0
    /\ main_result = TRUE
    /\ result = TRUE
    /\ trace = <<>>
    /\ processed = <<>>
    /\ prev = NoRun
    /\ output = ""
    /\ exitCode = 0

Init == Start(FileSystems)

InitArticle == Start(ArticleFileSystems)

\* str.endswith(suffix)
EndsWith(s, suffix) ==
    /\ Len(s) >= Len(suffix)
    /\ SubSeq(s, Len(s) - Len(suffix) + 1, Len(s)) = suffix

\* fnmatch of a file name against '*.yaml'
MatchesYaml(entry) == EndsWith(entry.name, YamlExtension)

\* glob.glob(os.path.join(definitions, '*.yaml'))
Glob(entries) == SelectSeq(entries, MatchesYaml)

\* The files Main passes to ProcessFile, in order.
Filenames == IF fs.isdir THEN Glob(fs.entries) ELSE fs.entries

\* What the reader yields for the file ProcessFile is reading.
CurrentFile == Filenames[fileIdx].file

\* Main up to the construction of the updater: arguments and their validation.
\* A run starts when the process starts, again after the previous one exited.
Main(kb_path, definitions) ==
    /\ pc \in {"start", "exit"}
    /\ options' = [kb_path |-> kb_path, definitions |-> definitions]
    /\ prev' = IF pc = "exit" /\ output \in {"SUCCESS", "FAILURE"}
               THEN [valid |-> TRUE, kb_path |-> options.kb_path,
                     processed |-> processed]
               ELSE prev
    /\ fileIdx' = 0
    /\ defIdx' = 0
    /\ result' = TRUE
    /\ trace' = <<>>
    /\ processed' = <<>>
    /\ IF definitions = <<>> THEN
           /\ output' = "Source value is missing."
           /\ main_result' = FALSE
           /\ exitCode' = 1
           /\ pc' = "exit"
       ELSE IF definitions # DefinitionsPath THEN
           /\ output' = "No such file or directory"
           /\ main_result' = FALSE
           /\ exitCode' = 1
           /\ pc' = "exit"
       ELSE
           /\ output' = ""
           /\ main_result' = TRUE
           /\ exitCode' = 0
           /\ pc' = "glob"
    /\ UNCHANGED <<fs, kb>>

\* Main calls ProcessFile on the next file; ProcessFile sets result = True.
ProcessFileCall ==
    /\ pc = "glob"
    /\ fileIdx < Len(Filenames)
    /\ fileIdx' = fileIdx + 1
    /\ defIdx' = 0
    /\ result' = TRUE
    /\ trace' = <<>>
    /\ output' = "Processing definitions in"
    /\ pc' = "reading"
    /\ UNCHANGED <<fs, kb, options, main_result, processed, prev, exitCode>>

\* Variant: a failed generation leaves result as it was.
ResultAfterIgnored(before, called, ret) ==
    before

\* Variant: result is the outcome of the last generation.
ResultAfterLast(before, called, ret) ==
    IF called THEN ret ELSE before

\* result after an iteration: if not has_kb_page and not created, result = False
ResultAfter(before, called, ret) ==
    IF called /\ ~ret THEN FALSE ELSE before

\* One iteration of the loop of ProcessFile over the definitions of the reader.
\* An exception other than FormatError leaves ProcessFile and Main.
ProcessDefinition ==
    /\ pc = "reading"
    /\ defIdx < Len(CurrentFile.defs)
    /\ LET artifact_definition == CurrentFile.defs[defIdx + 1]
           has_kb_page == HasKBPage(artifact_definition)
           created     == CreateKBArticle(options.kb_path, kb, artifact_definition)
           called      == ~has_kb_page
           after       == ResultAfter(result, called, created.ret)
       IN  /\ defIdx' = defIdx + 1
           /\ kb' = IF called THEN created.files ELSE kb
           /\ result' = after
           /\ trace' = Append(trace,
                  [definition |-> artifact_definition,
                   has_kb_page |-> has_kb_page,
                   called |-> called,
                   ret |-> called /\ created.ret,
                   log |-> IF called THEN created.log ELSE "",
                   before |-> kb,
                   result |-> after])
           /\ IF called /\ created.raised
              THEN /\ pc' = "exit"
                   /\ output' = "Traceback"
                   /\ exitCode' = 1
              ELSE UNCHANGED <<pc, output, exitCode>>
    /\ UNCHANGED <<fs, options, fileIdx, main_result, processed, prev>>

\* Variant: the result of the last file replaces the result of Main.
ReturnedLast(value, error) ==
    /\ main_result' = value
    /\ processed' = Append(processed,
           [file |-> Filenames[fileIdx].name, result |-> value, error |-> error,
            read |-> defIdx,
            created |-> DOMAIN kb \ (IF trace = <<>> THEN DOMAIN kb
                                     ELSE DOMAIN trace[1].before)])
    /\ pc' = "glob"

\* What Main does with the value ProcessFile returned.
Returned(value, error) ==
    /\ main_result' = IF fs.isdir THEN (IF ~value THEN FALSE ELSE main_result)
                      ELSE value
    /\ processed' = Append(processed,
           [file |-> Filenames[fileIdx].name, result |-> value, error |-> error,
            read |-> defIdx,
            created |-> DOMAIN kb \ (IF trace = <<>> THEN DOMAIN kb
                                     ELSE DOMAIN trace[1].before)])
    /\ pc' = "glob"

\* Variant: the handler of FormatError does not set result.
FormatErrorKeepsResult ==
    /\ pc = "reading"
    /\ defIdx = Len(CurrentFile.defs)
    /\ CurrentFile.err
    /\ Returned(result, TRUE)
    /\ UNCHANGED <<fs, kb, options, fileIdx, defIdx, result, trace, prev, output,
                   exitCode>>

\* The reader raises FormatError: ProcessFile catches it and returns False.
FormatError ==
    /\ pc = "reading"
    /\ defIdx = Len(CurrentFile.defs)
    /\ CurrentFile.err
    /\ result' = FALSE
    /\ Returned(FALSE, TRUE)
    /\ UNCHANGED <<fs, kb, options, fileIdx, defIdx, trace, prev, output, exitCode>>

\* The reader is exhausted: ProcessFile returns result.
ProcessFileReturn ==
    /\ pc = "reading"
    /\ defIdx = Len(CurrentFile.defs)
    /\ ~CurrentFile.err
    /\ Returned(result, FALSE)
    /\ UNCHANGED <<fs, kb, options, fileIdx, defIdx, result, trace, prev, output,
                   exitCode>>

\* Main prints the outcome and the process exits.
MainReturn ==
    /\ pc = "glob"
    /\ fileIdx = Len(Filenames)
    /\ output' = IF main_result THEN "SUCCESS" ELSE "FAILURE"
    /\ exitCode' = IF main_result THEN 0 ELSE 1
    /\ pc' = "exit"
    /\ UNCHANGED <<fs, kb, options, fileIdx, defIdx, main_result, result, trace,
                   processed, prev>>

Next ==
    \/ \E kb_path \in KBPaths, definitions \in DefinitionsArguments :
           Main(kb_path, definitions)
    \/ ProcessFileCall
    \/ ProcessDefinition
    \/ FormatError
    \/ ProcessFileReturn
    \/ MainReturn

Spec == Init /\ [][Next]_vars

SpecArticle == InitArticle /\ [][Next]_vars

(***************************************************************************)
(* Vocabulary of the properties, stated without the operators of the code. *)
(***************************************************************************)

\* At least one url of the definition starts with the knowledge base prefix.
Documented(d) ==
    \E i \in DOMAIN d.urls :
        /\ Len(d.urls[i]) >= Len(ARTIFACTS_KB_URL_PREFIX)
        /\ \A k \in DOMAIN ARTIFACTS_KB_URL_PREFIX :
               d.urls[i][k] = ARTIFACTS_KB_URL_PREFIX[k]

\* The name starts with 'Windows'.
Supported(name) ==
    /\ Len(name) >= 7
    /\ \A k \in 1..7 : name[k] = WindowsPrefix[k]

\* The name with its first 7 characters removed.
Stripped(name) == [k \in 1..(Len(name) - 7) |-> name[k + 7]]

\* <kb_path>/windows/<stripped name>.md
DerivedPath(kb_path, name) ==
    kb_path \o <<"/", "w", "i", "n", "d", "o", "w", "s", "/">>
    \o Stripped(name) \o <<".", "m", "d">>

RECURSIVE Concat(_)
Concat(seqs) ==
    IF seqs = <<>> THEN <<>> ELSE Head(seqs) \o Concat(Tail(seqs))

\* The article of a definition, written out directly: heading, description or
\* placeholder, references heading, one reference line per url.
ExpectedArticle(d) ==
    <<"#", "#", " ">> \o Stripped(d.name) \o <<"\n", "\n">>
    \o (IF d.description = <<>>
        THEN <<"T", "O", "D", "O", ":", " ", "a", "d", "d", " ", "s", "h", "o",
               "r", "t", " ", "s", "u", "m", "m", "a", "r", "y">>
        ELSE d.description)
    \o <<"\n", "\n", "#", "#", "#", " ", "R", "e", "f", "e", "r", "e", "n", "c",
         "e", "s", "\n", "\n">>
    \o Concat([i \in DOMAIN d.urls |->
                 <<"*", " ", "[", "T", "O", "D", "O", ":", " ", "a", "d", "d",
                   " ", "d", "e", "s", "c", "r", "i", "p", "t", "i", "o", "n",
                   "]", "(">> \o d.urls[i] \o <<")", "\n">>])

HasBrace(s) == \E k \in DOMAIN s : s[k] \in {"{", "}"}

\* The knowledge base after the i-th iteration of the current ProcessFile call.
After(i) == IF i < Len(trace) THEN trace[i + 1].before ELSE kb

\* result of ProcessFile before its i-th iteration.
ResultBefore(i) == IF i = 1 THEN TRUE ELSE trace[i - 1].result

\* files is before with exactly the file at path added.
AddsOnly(before, files, path) ==
    /\ path \notin DOMAIN before
    /\ DOMAIN files = DOMAIN before \cup {path}
    /\ \A p \in DOMAIN before : files[p] = before[p]

\* The i-th iteration had article generation attempted for its definition.
Attempted(i) == trace[i].called

\* ProcessFile has returned to Main and trace holds the iterations of that call.
FileReturned ==
    /\ pc \in {"glob", "exit"}
    /\ processed # <<>>
    /\ Len(processed) = fileIdx
    /\ output # "Traceback"

LastCall == processed[Len(processed)]

\* The current run processes files and the previous completed run had the
\* same arguments (the definitions path and its content never change).
Rerun ==
    /\ pc \in {"glob", "reading", "exit"}
    /\ output \notin {"Source value is missing.", "No such file or directory"}
    /\ prev.valid
    /\ prev.kb_path = options.kb_path

CollisionLog == "has knowledge base article but is not specified as URL"

(***************************************************************************)
(* Properties.                                                             *)
(***************************************************************************)

\* C1: a definition with at least one url starting with the knowledge base
\* prefix never has _CreateKBArticle called for it; processing it leaves the
\* knowledge base directory and the result of ProcessFile as they were,
\* whatever its other urls and whatever kb_path is.
C1_DocumentedNeverGenerated ==
    \A i \in DOMAIN trace :
        Documented(trace[i].definition) =>
            /\ ~Attempted(i)
            /\ After(i) = trace[i].before
            /\ trace[i].result = ResultBefore(i)

\* C1 witness: with a knowledge base path configured, a definition carrying a
\* knowledge base url after a url outside the knowledge base was processed.
C1_Witness ==
    /\ options.kb_path # <<>>
    /\ \E i \in DOMAIN trace :
           /\ Documented(trace[i].definition)
           /\ ~Documented([urls |-> <<trace[i].definition.urls[1]>>])

\* C2: a file of the knowledge base directory is never modified or deleted,
\* by any step of any run, and a run with the same arguments as the previous
\* completed run creates no file.
C2_NeverOverwritten ==
    [][/\ \A p \in DOMAIN kb : p \in DOMAIN kb' /\ kb'[p] = kb[p]
       /\ (Rerun /\ Rerun') => DOMAIN kb' = DOMAIN kb]_vars

\* C2 witness: in a run repeating the previous one, generation met an article
\* that another definition with the same name had written.
C2_Witness ==
    /\ Rerun
    /\ options.kb_path # <<>>
    /\ \E i \in DOMAIN trace :
           /\ Attempted(i)
           /\ Supported(trace[i].definition.name)
           /\ LET path == DerivedPath(options.kb_path, trace[i].definition.name)
              IN  /\ path \in DOMAIN kb
                  /\ kb[path] # ExpectedArticle(trace[i].definition)

\* C3 as stated: every supported, undocumented definition processed with a
\* knowledge base path has exactly one article created, at the derived path,
\* and _CreateKBArticle returns True.
C3_AlwaysCreated ==
    \A i \in DOMAIN trace :
        (/\ options.kb_path # <<>>
         /\ Supported(trace[i].definition.name)
         /\ ~Documented(trace[i].definition)) =>
            /\ trace[i].ret
            /\ AddsOnly(trace[i].before, After(i),
                        DerivedPath(options.kb_path, trace[i].definition.name))

\* C3 amended: when no file exists yet at the derived path
\* <kb_path>/windows/<name without its first 7 characters>.md, a supported,
\* undocumented definition processed with a knowledge base path has exactly
\* that one file created, _CreateKBArticle returns True, and no other file is
\* created or changed; when the file exists, nothing is created and it
\* returns False.
C3_CreatedUnlessExists ==
    \A i \in DOMAIN trace :
        (/\ options.kb_path # <<>>
         /\ Supported(trace[i].definition.name)
         /\ ~Documented(trace[i].definition)) =>
            LET path == DerivedPath(options.kb_path, trace[i].definition.name)
            IN  IF path \in DOMAIN trace[i].before
                THEN ~trace[i].ret /\ After(i) = trace[i].before
                ELSE trace[i].ret /\ AddsOnly(trace[i].before, After(i), path)

\* C3 witness: the definition named exactly 'Windows' had its article created
\* in a knowledge base that already held another article.
C3_Witness ==
    \E i \in DOMAIN trace :
        /\ trace[i].definition.name = WindowsPrefix
        /\ trace[i].ret
        /\ trace[i].before # NoFiles
        /\ DerivedPath(options.kb_path, WindowsPrefix) \in DOMAIN After(i)

\* C4 as stated: with a knowledge base path configured, a file that parses
\* without a format error and whose undocumented definitions all have
\* unsupported names yields ProcessFile = True.
C4_UnsupportedDoesNotFail ==
    (/\ FileReturned
     /\ options.kb_path # <<>>
     /\ ~LastCall.error
     /\ \A i \in DOMAIN trace :
            ~Documented(trace[i].definition) =>
                ~Supported(trace[i].definition.name)) =>
        LastCall.result

\* C4 amended: with a knowledge base path configured, _CreateKBArticle returns
\* False and writes no file for an undocumented definition whose name does
\* not start with 'Windows', and this decline makes ProcessFile return False:
\* a file holding such a definition yields ProcessFile = False.
C4_UnsupportedFails ==
    /\ \A i \in DOMAIN trace :
           (/\ options.kb_path # <<>>
            /\ ~Documented(trace[i].definition)
            /\ ~Supported(trace[i].definition.name)) =>
               /\ Attempted(i)
               /\ ~trace[i].ret
               /\ After(i) = trace[i].before
               /\ ~trace[i].result
    /\ (/\ FileReturned
        /\ options.kb_path # <<>>
        /\ \E i \in DOMAIN trace :
               /\ ~Documented(trace[i].definition)
               /\ ~Supported(trace[i].definition.name)) =>
           ~LastCall.result

\* C4 witness: ProcessFile returned, without a format error, for a file whose
\* only undocumented definition is LinuxProcfs, with a knowledge base path.
C4_Witness ==
    /\ FileReturned
    /\ options.kb_path # <<>>
    /\ ~LastCall.error
    /\ \E i \in DOMAIN trace : trace[i].definition.name = ProcfsName
    /\ \A i \in DOMAIN trace :
           ~Documented(trace[i].definition) =>
               trace[i].definition.name = ProcfsName

\* C5: with no knowledge base path, _CreateKBArticle returns False for every
\* definition it is called for and creates no file, and ProcessFile returns
\* False for a file with at least one undocumented definition, however many
\* documented ones it holds.
C5_NoKBPathFails ==
    options.kb_path = <<>> =>
        /\ \A i \in DOMAIN trace :
               ~Documented(trace[i].definition) =>
                   /\ Attempted(i)
                   /\ ~trace[i].ret
                   /\ trace[i].log = "Missing knowledge base article"
                   /\ After(i) = trace[i].before
        /\ (FileReturned /\ \E i \in DOMAIN trace :
                                ~Documented(trace[i].definition)) =>
               ~LastCall.result

\* C5 witness: without a knowledge base path, ProcessFile returned for a file
\* holding WindowsRegistryKey ('A key.', no urls) and a documented definition.
C5_Witness ==
    /\ options.kb_path = <<>>
    /\ FileReturned
    /\ ~LastCall.error
    /\ \E i \in DOMAIN trace : trace[i].definition = RegistryKey
    /\ \E i \in DOMAIN trace : Documented(trace[i].definition)

\* C6 as stated: in a run repeating the previous one, a file for which
\* ProcessFile returned True then returns True again.
C6_RerunSameOutcome ==
    Rerun =>
        \A f \in DOMAIN processed :
            (f \in DOMAIN prev.processed /\ prev.processed[f].result) =>
                processed[f].result

\* C6 amended: in a run repeating the previous one, generation is declined
\* with the collision message for every supported undocumented definition
\* and creates nothing, and the decline fails the file: ProcessFile returns
\* False for every file for which the previous run created an article, and
\* the same result as before for every other file.
C6_RerunCollisionFails ==
    Rerun =>
        /\ \A i \in DOMAIN trace :
               (/\ options.kb_path # <<>>
                /\ ~Documented(trace[i].definition)
                /\ Supported(trace[i].definition.name)) =>
                   /\ trace[i].log = CollisionLog
                   /\ ~trace[i].ret
                   /\ After(i) = trace[i].before
        /\ \A f \in DOMAIN processed :
               /\ f \in DOMAIN prev.processed
               /\ prev.processed[f].file = processed[f].file
               /\ IF prev.processed[f].created # {}
                  THEN ~processed[f].result
                  ELSE processed[f].result = prev.processed[f].result

\* C6 witness: the run repeating the previous one has exited, and a file for
\* which the previous run returned True after creating an article was
\* processed again.
C6_Witness ==
    /\ Rerun
    /\ pc = "exit"
    /\ \E f \in DOMAIN processed :
           /\ prev.processed[f].result
           /\ prev.processed[f].created # {}

\* The names of the top-level entries of the directory that end in '.yaml'.
YamlNames ==
    {fs.entries[k].name : k \in {j \in DOMAIN fs.entries :
        LET n == fs.entries[j].name
        IN  /\ Len(n) >= 5
            /\ <<n[Len(n) - 4], n[Len(n) - 3], n[Len(n) - 2], n[Len(n) - 1],
                 n[Len(n)]>> = <<".", "y", "a", "m", "l">>}}

\* C7: for a directory, Main calls ProcessFile exactly once on every entry
\* matching '*.yaml' and on nothing else, going on after a file fails; the
\* overall result is the conjunction of the results of the calls, printed as
\* SUCCESS with exit code 0 or FAILURE with exit code 1, and it is success
\* when no entry matches.
C7_DirectoryAggregation ==
    (fs.isdir /\ pc = "exit" /\ output \in {"SUCCESS", "FAILURE"}) =>
        /\ {processed[f].file : f \in DOMAIN processed} = YamlNames
        /\ Len(processed) = Cardinality(YamlNames)
        /\ main_result = (\A f \in DOMAIN processed : processed[f].result)
        /\ (output = "SUCCESS") = main_result
        /\ (exitCode = 0) = main_result
        /\ YamlNames = {} => output = "SUCCESS"

\* C7 witness: Main exited for a directory holding an entry that is not a
\* '*.yaml' file, after ProcessFile returned False for one file and True for
\* a later one.
C7_Witness ==
    /\ fs.isdir
    /\ pc = "exit"
    /\ output = "FAILURE"
    /\ Len(fs.entries) > Len(processed)
    /\ \E f, g \in DOMAIN processed :
           f < g /\ ~processed[f].result /\ processed[g].result

\* C8: when the reader raises FormatError, ProcessFile returns False and the
\* error does not leave it; every definition yielded before the error was
\* classified and, when undocumented, had generation attempted; the articles
\* created before the error are in the knowledge base; and Main exits with
\* code 1.
C8_FormatErrorFailsFile ==
    /\ output # "Traceback"
    /\ (FileReturned /\ LastCall.error) =>
           /\ ~LastCall.result
           /\ Len(trace) = Len(CurrentFile.defs)
           /\ \A i \in DOMAIN trace :
                  /\ trace[i].definition = CurrentFile.defs[i]
                  /\ Attempted(i) = ~Documented(trace[i].definition)
                  /\ trace[i].ret =>
                         LET path == DerivedPath(options.kb_path,
                                                 trace[i].definition.name)
                         IN  /\ path \in DOMAIN kb
                             /\ kb[path] = ExpectedArticle(trace[i].definition)
    /\ (/\ pc = "exit"
        /\ output \in {"SUCCESS", "FAILURE"}
        /\ \E f \in DOMAIN processed : processed[f].error) =>
           output = "FAILURE" /\ exitCode = 1

\* C8 witness: Main exited with code 1 after the reader raised FormatError in
\* a file for which an article had been created before the error.
C8_Witness ==
    /\ pc = "exit"
    /\ exitCode = 1
    /\ FileReturned
    /\ LastCall.error
    /\ LastCall.created # {}
    /\ \E i \in DOMAIN trace : trace[i].ret

\* C9: the article _CreateKBArticle writes holds the title (the name without
\* its first 7 characters) in the heading, the description verbatim or the
\* placeholder 'TODO: add short summary' when it is empty, and each url
\* verbatim as the link target of its own reference line, in order, every
\* brace of the input appearing exactly once; no input makes the
\* substitution pass raise.
C9_RenderRoundTrip ==
    /\ output # "Traceback"
    /\ \A i \in DOMAIN trace :
           trace[i].ret =>
               LET path == DerivedPath(options.kb_path, trace[i].definition.name)
               IN  /\ path \in DOMAIN After(i)
                   /\ After(i)[path] = ExpectedArticle(trace[i].definition)

\* C9 witness: an article was created for a definition whose description is
\* the text '{title}' and that has two urls, one of them with braces.
C9_Witness ==
    \E i \in DOMAIN trace :
        /\ trace[i].ret
        /\ trace[i].definition.description = TitleBraces
        /\ Len(trace[i].definition.urls) = 2
        /\ HasBrace(trace[i].definition.urls[2])

\* C10: inside a file nothing is skipped and the result is latched: every
\* definition the reader yields is classified and, when undocumented, has
\* generation attempted, also after an earlier one failed; result never goes
\* from False back to True; and ProcessFile returns True exactly when there
\* was no FormatError and _CreateKBArticle returned True for every
\* undocumented definition.
C10_NoShortCircuitLatched ==
    /\ \A i \in DOMAIN trace :
           /\ trace[i].definition = CurrentFile.defs[i]
           /\ Attempted(i) = ~Documented(trace[i].definition)
           /\ ~ResultBefore(i) => ~trace[i].result
    /\ FileReturned =>
           /\ Len(trace) = Len(CurrentFile.defs)
           /\ LastCall.result =
                  (/\ ~LastCall.error
                   /\ \A i \in DOMAIN trace :
                          ~Documented(trace[i].definition) => trace[i].ret)

\* C10 witness: ProcessFile returned False for a file in which an article was
\* created for a definition that came after one whose generation failed.
C10_Witness ==
    /\ FileReturned
    /\ ~LastCall.error
    /\ ~LastCall.result
    /\ \E i, j \in DOMAIN trace :
           i < j /\ Attempted(i) /\ ~trace[i].ret /\ trace[j].ret

====
